---- MODULE Spec2Model ----
(***************************************************************************)
(* Model of the reveal.js auto-fragment plugin (src/plugin.js).            *)
(*                                                                         *)
(* The DOM is a finite tree whose nodes are numbered in document order     *)
(* (preorder), so that every parent has a smaller number than its          *)
(* children and "document order" is the order of the numbers.              *)
(* JavaScript strings are sequences of UTF-16 code units; JavaScript       *)
(* numbers are the doubles of integer value, the infinities and NaN.       *)
(***************************************************************************)
EXTENDS Integers, Sequences, FiniteSets, TLC

(***************************************************************************)
(* Natural numbers of any size: the limbs of the number in base 2^15,      *)
(* least significant first, with no zero limb at the high end (zero is the *)
(* empty sequence).  They carry the exact integers that JavaScript numbers *)
(* are rounded from.                                                       *)
(***************************************************************************)
Radix == 2^15

Limb(m, i) == IF i <= Len(m) THEN m[i] ELSE 0

\* the position of the highest limb of m that is not zero, 0 without one
Top(m) ==
    IF \A i \in 1..Len(m) : m[i] = 0 THEN 0
    ELSE CHOOSE i \in 1..Len(m) : m[i] # 0 /\ \A j \in (i + 1)..Len(m) : m[j] = 0

\* m without zero limbs at the high end
Normal(m) == SubSeq(m, 1, Top(m))

\* the limbs of a natural number n
RECURSIVE BigOf(_)
BigOf(n) == IF n = 0 THEN <<>> ELSE <<n % Radix>> \o BigOf(n \div Radix)

\* whether the addition of a and b carries into limb i: a limb below
\* overflows and every limb between is full
Carry(a, b, i) ==
    \E j \in 1..(i - 1) :
        /\ Limb(a, j) + Limb(b, j) >= Radix
        /\ \A k \in (j + 1)..(i - 1) : Limb(a, k) + Limb(b, k) = Radix - 1

\* a + b
BigAdd(a, b) ==
    IF a = <<>> THEN Normal(b)
    ELSE IF b = <<>> THEN Normal(a)
    ELSE Normal([i \in 1..((IF Len(a) < Len(b) THEN Len(b) ELSE Len(a)) + 1) |->
               (Limb(a, i) + Limb(b, i) + (IF Carry(a, b, i) THEN 1 ELSE 0)) % Radix])

\* whether the subtraction of b from a borrows from limb i
Borrow(a, b, i) ==
    \E j \in 1..(i - 1) :
        /\ Limb(a, j) < Limb(b, j)
        /\ \A k \in (j + 1)..(i - 1) : Limb(a, k) = Limb(b, k)

\* a - b, a being no less than b
BigSub(a, b) ==
    IF b = <<>> THEN Normal(a)
    ELSE Normal([i \in 1..Len(a) |->
               (Radix + a[i] - Limb(b, i) - (IF Borrow(a, b, i) THEN 1 ELSE 0)) % Radix])

\* a < b
BigLess(a, b) ==
    IF Len(a) # Len(b) THEN Len(a) < Len(b)
    ELSE \E i \in 1..Len(a) :
            a[i] < b[i] /\ \A j \in (i + 1)..Len(a) : a[j] = b[j]

\* a * k + c, for k and c below the radix: the low halves of the products
\* of the limbs, plus their high halves one limb up, plus c
MulSmall(a, k, c) ==
    IF a = <<>> THEN BigOf(c)
    ELSE BigAdd(BigAdd([i \in 1..Len(a) |-> (a[i] * k) % Radix],
                  <<0>> \o [i \in 1..Len(a) |-> (a[i] * k) \div Radix]),
           BigOf(c))

\* m * Radix^n
ShiftLimbs(m, n) == IF m = <<>> THEN <<>> ELSE [i \in 1..n |-> 0] \o m

\* a times the limbs lo to hi of b, each at its place
RECURSIVE MulRange(_, _, _, _)
MulRange(a, b, lo, hi) ==
    IF lo > hi THEN <<>>
    ELSE IF lo = hi THEN ShiftLimbs(MulSmall(a, b[lo], 0), lo - 1)
    ELSE BigAdd(MulRange(a, b, lo, (lo + hi) \div 2),
                MulRange(a, b, ((lo + hi) \div 2) + 1, hi))

\* a * b
BigMul(a, b) == IF a = <<>> \/ b = <<>> THEN <<>> ELSE MulRange(a, b, 1, Len(b))

\* m * m
Square(m) == BigMul(m, m)

\* k^e, for k below the radix
RECURSIVE Pow(_, _)
Pow(k, e) ==
    IF e = 0 THEN <<1>>
    ELSE IF e % 2 = 1 THEN MulSmall(Pow(k, e - 1), k, 0)
    ELSE Square(Pow(k, e \div 2))

\* the number whose digits lo to hi in the radix, most significant first,
\* are those of ds
RECURSIVE FromDigits(_, _, _, _)
FromDigits(ds, radix, lo, hi) ==
    IF lo > hi THEN <<>>
    ELSE IF lo = hi THEN BigOf(ds[lo])
    ELSE BigAdd(BigMul(Pow(radix, hi - ((lo + hi) \div 2)),
                       FromDigits(ds, radix, lo, (lo + hi) \div 2)),
                FromDigits(ds, radix, ((lo + hi) \div 2) + 1, hi))

\* a divided by d, from limb i down: the quotient and the remainder, q
\* being the limbs of the quotient and r the remainder so far
RECURSIVE DivSmallFrom(_, _, _, _, _)
DivSmallFrom(a, d, i, r, q) ==
    IF i = 0 THEN [q |-> Normal(q), r |-> r]
    ELSE DivSmallFrom(a, d, i - 1, (r * Radix + a[i]) % d,
                      <<(r * Radix + a[i]) \div d>> \o q)

DivSmall(a, d) == DivSmallFrom(a, d, Len(a), 0, <<>>)

\* the decimal digits of m, most significant first (none for zero), before
\* the digits ds
RECURSIVE DecimalFrom(_, _)
RECURSIVE DecimalStep(_, _)
DecimalStep(d, ds) == DecimalFrom(d.q, <<d.r>> \o ds)
DecimalFrom(m, ds) == IF m = <<>> THEN ds ELSE DecimalStep(DivSmall(m, 10), ds)

DecimalDigits(m) == DecimalFrom(m, <<>>)

\* the number of bits of a limb, and of a number
BitsOf(x) == CHOOSE k \in 0..15 : x < 2^k /\ (k = 0 \/ x >= 2^(k - 1))
BitLength(m) == IF m = <<>> THEN 0 ELSE 15 * (Len(m) - 1) + BitsOf(m[Len(m)])

\* bit t of m (bit 0 is the lowest)
Bit(m, t) == (Limb(m, (t \div 15) + 1) \div 2^(t % 15)) % 2

\* whether one of the bits below bit t of m is set
LowBits(m, t) ==
    \E i \in 1..Len(m) :
        \/ i <= t \div 15 /\ m[i] # 0
        \/ i = (t \div 15) + 1 /\ m[i] % 2^(t % 15) # 0

\* m with the bits below bit t cleared
ClearLow(m, t) ==
    [i \in 1..Len(m) |->
        IF i <= t \div 15 THEN 0
        ELSE IF i = (t \div 15) + 1 THEN m[i] - (m[i] % 2^(t % 15))
        ELSE m[i]]

\* 2^t
Pow2(t) == [i \in 1..((t \div 15) + 1) |-> IF i = (t \div 15) + 1 THEN 2^(t % 15) ELSE 0]

\* m rounded to a multiple of 2^s, to the nearest one and to the one whose
\* quotient by 2^s is even when two are as near (s > 0)
RoundTo(m, s) ==
    IF Bit(m, s - 1) = 1 /\ (LowBits(m, s - 1) \/ Bit(m, s) = 1)
    THEN BigAdd(ClearLow(m, s), Pow2(s))
    ELSE Normal(ClearLow(m, s))

\* the nearest natural number with at most 53 significant bits
Nearest(m) == IF BitLength(m) <= 53 THEN m ELSE RoundTo(m, BitLength(m) - 53)

(***************************************************************************)
(* Integers: a sign and a magnitude (zero is not negative).                *)
(***************************************************************************)
Integer(neg, mag) == [neg |-> neg /\ mag # <<>>, mag |-> mag]

IntAdd(a, b) ==
    IF a.neg = b.neg THEN Integer(a.neg, BigAdd(a.mag, b.mag))
    ELSE IF BigLess(a.mag, b.mag) THEN Integer(b.neg, BigSub(b.mag, a.mag))
    ELSE Integer(a.neg, BigSub(a.mag, b.mag))

IntMul(a, b) == Integer(a.neg # b.neg, BigMul(a.mag, b.mag))

IntLess(a, b) ==
    IF a.neg # b.neg THEN a.neg
    ELSE IF a.neg THEN BigLess(b.mag, a.mag)
    ELSE BigLess(a.mag, b.mag)

(***************************************************************************)
(* JavaScript numbers.  The plugin computes with integers only, so a       *)
(* number is NaN, an infinity, or a double whose value is an integer: the  *)
(* sign and the magnitude, which has at most 53 significant bits and is    *)
(* below 2^1024.  The sign of zero, which no operation of the plugin       *)
(* observes, is not kept.                                                  *)
(***************************************************************************)
NaN == [nan |-> TRUE, inf |-> FALSE, neg |-> FALSE, mag |-> <<>>]
Infinity(neg) == [nan |-> FALSE, inf |-> TRUE, neg |-> neg, mag |-> <<>>]

\* the double of sign neg and magnitude m, m being rounded already
Rounded(neg, m) ==
    IF BitLength(m) > 1024 THEN Infinity(neg)
    ELSE [nan |-> FALSE, inf |-> FALSE, neg |-> neg /\ m # <<>>, mag |-> m]

\* the double nearest to the integer of sign neg and magnitude mag
Double(neg, mag) == Rounded(neg, Nearest(mag))

\* the double nearest to an integer
ToNumber(z) == Double(z.neg, z.mag)

\* the number of a small integer n
Num(n) == Double(n < 0, BigOf(IF n < 0 THEN 0 - n ELSE n))

\* a + b
NumAdd(a, b) ==
    IF a.nan \/ b.nan THEN NaN
    ELSE IF a.inf /\ b.inf THEN (IF a.neg = b.neg THEN a ELSE NaN)
    ELSE IF a.inf THEN a
    ELSE IF b.inf THEN b
    ELSE ToNumber(IntAdd(a, b))
\* a * b
NumMul(a, b) ==
    IF a.nan \/ b.nan THEN NaN
    ELSE IF a.inf \/ b.inf
    THEN (IF (~a.inf /\ a.mag = <<>>) \/ (~b.inf /\ b.mag = <<>>)
          THEN NaN ELSE Infinity(a.neg # b.neg))
    ELSE ToNumber(IntMul(a, b))
\* a > b (false when either side is NaN)
NumGt(a, b) ==
    /\ ~a.nan /\ ~b.nan
    /\ IF b.inf THEN b.neg /\ ~(a.inf /\ a.neg)
       ELSE IF a.inf THEN ~a.neg
       ELSE IntLess(b, a)

(***************************************************************************)
(* JavaScript strings: sequences of UTF-16 code units (0..65535).          *)
(***************************************************************************)
\* the printable ASCII characters in code-unit order: U+0020 to U+005F, and
\* U+0061 to U+007E
AsciiUpper ==
    <<" ", "!", "\"", "#", "$", "%", "&", "'", "(", ")", "*", "+", ",", "-",
      ".", "/", "0", "1", "2", "3", "4", "5", "6", "7", "8", "9", ":", ";",
      "<", "=", ">", "?", "@", "A", "B", "C", "D", "E", "F", "G", "H", "I",
      "J", "K", "L", "M", "N", "O", "P", "Q", "R", "S", "T", "U", "V", "W",
      "X", "Y", "Z", "[", "\\", "]", "^", "_">>
AsciiLower ==
    <<"a", "b", "c", "d", "e", "f", "g", "h", "i", "j", "k", "l", "m", "n",
      "o", "p", "q", "r", "s", "t", "u", "v", "w", "x", "y", "z", "{", "|",
      "}", "~">>

\* the code unit of a printable ASCII character
CodeUnit(c) ==
    IF \E i \in 1..Len(AsciiUpper) : AsciiUpper[i] = c
    THEN 31 + (CHOOSE i \in 1..Len(AsciiUpper) : AsciiUpper[i] = c)
    ELSE 96 + (CHOOSE i \in 1..Len(AsciiLower) : AsciiLower[i] = c)

\* a string literal of the source, written character by character
Str(chars) == [i \in 1..Len(chars) |-> CodeUnit(chars[i])]

Comma == CodeUnit(",")
Plus == CodeUnit("+")
Minus == CodeUnit("-")
Digit0 == CodeUnit("0")
Digit9 == CodeUnit("9")
LowerA == CodeUnit("a")
LowerF == CodeUnit("f")
LowerX == CodeUnit("x")
UpperA == CodeUnit("A")
UpperF == CodeUnit("F")
UpperX == CodeUnit("X")
LowerE == CodeUnit("e")
Dot == CodeUnit(".")

\* the code units String.prototype.trim strips and parseInt skips: WhiteSpace
\* of ECMAScript (tab U+0009, vertical tab U+000B, form feed U+000C, the byte
\* order mark U+FEFF and the space separators U+0020, U+00A0, U+1680,
\* U+2000..U+200A, U+202F, U+205F, U+3000) and LineTerminator (line feed
\* U+000A, carriage return U+000D, U+2028, U+2029)
WhiteSpace ==
    {9, 11, 12, 65279, 32, 160, 5760, 8239, 8287, 12288, 10, 13, 8232, 8233}
    \cup (8192..8202)

\* the value of code unit c as a digit, or -1 when it is no digit at all
DigitVal(c) ==
    IF c >= Digit0 /\ c <= Digit9 THEN c - Digit0
    ELSE IF c >= LowerA /\ c <= LowerF THEN c - LowerA + 10
    ELSE IF c >= UpperA /\ c <= UpperF THEN c - UpperA + 10
    ELSE -1

IsDigit(c, radix) == DigitVal(c) >= 0 /\ DigitVal(c) < radix

Drop(s, n) == SubSeq(s, n + 1, Len(s))

\* s from its first code unit that is no white space
TrimStart(s) ==
    IF \A i \in 1..Len(s) : s[i] \in WhiteSpace THEN <<>>
    ELSE SubSeq(s, CHOOSE i \in 1..Len(s) :
                       s[i] \notin WhiteSpace /\ \A j \in 1..(i - 1) : s[j] \in WhiteSpace,
                Len(s))

\* s up to its last code unit that is no white space
TrimEnd(s) ==
    IF \A i \in 1..Len(s) : s[i] \in WhiteSpace THEN <<>>
    ELSE SubSeq(s, 1, CHOOSE i \in 1..Len(s) :
                       s[i] \notin WhiteSpace /\ \A j \in (i + 1)..Len(s) : s[j] \in WhiteSpace)

\* String.prototype.trim
trim(s) == TrimEnd(TrimStart(s))

\* the positions of the commas of s, in order
Commas(s) == SelectSeq([i \in 1..Len(s) |-> i], LAMBDA i : s[i] = Comma)

\* the pieces of s between the commas at positions cs
Pieces(s, cs) ==
    [j \in 1..(Len(cs) + 1) |->
        SubSeq(s, IF j = 1 THEN 1 ELSE cs[j - 1] + 1,
                  IF j = Len(cs) + 1 THEN Len(s) ELSE cs[j] - 1)]

\* String.prototype.split(","): the pieces between the commas
split(s) == Pieces(s, Commas(s))

\* the length of the longest prefix of s made of digits of the radix
DigitRun(s, radix) ==
    IF \A i \in 1..Len(s) : IsDigit(s[i], radix) THEN Len(s)
    ELSE (CHOOSE i \in 1..Len(s) :
              ~IsDigit(s[i], radix) /\ \A j \in 1..(i - 1) : IsDigit(s[j], radix)) - 1

\* the first n code units of s read as digits of the radix: whether there
\* is one, and the integer they denote
ReadRun(s, radix, n) ==
    [any |-> n > 0, v |-> FromDigits([i \in 1..n |-> DigitVal(s[i])], radix, 1, n)]

\* the longest prefix of s made of digits of the radix, read as a number
ReadDigits(s, radix) == ReadRun(s, radix, DigitRun(s, radix))

\* the digits after the sign: hexadecimal after 0x or 0X, decimal otherwise
ReadNumber(u) ==
    IF Len(u) >= 2 /\ u[1] = Digit0 /\ u[2] \in {LowerX, UpperX}
    THEN ReadDigits(Drop(u, 2), 16)
    ELSE ReadDigits(u, 10)

\* the number read, negated after a minus sign; NaN when no digit was read
Signed(neg, r) ==
    IF ~r.any THEN NaN ELSE Double(neg, r.v)

\* parseInt of a string without leading white space
ParseSigned(t) ==
    Signed(t # <<>> /\ Head(t) = Minus,
           ReadNumber(IF t # <<>> /\ Head(t) \in {Plus, Minus} THEN Tail(t) ELSE t))

\* parseInt(s) with no radix argument: leading white space, an optional
\* sign, an optional 0x/0X prefix, then digits; anything after is ignored.
\* The value is the double nearest to the integer the digits denote.
parseInt(s) == ParseSigned(TrimStart(s))

\* the text of decimal digits
DigitText(ds) == [i \in 1..Len(ds) |-> Digit0 + ds[i]]

\* the decimal digits of a natural number, "0" for zero
NatToString(m) == IF m = <<>> THEN <<Digit0>> ELSE DigitText(DecimalDigits(m))

\* the number of decimal digits of m, a number of bits bits: the logarithm
\* of 2 is 0.30103, and the count is within one of the estimate
DigitCount(m, bits) ==
    CHOOSE n \in (((bits - 1) * 30103) \div 100000)..((((bits - 1) * 30103) \div 100000) + 2) :
        /\ BigLess(m, Pow(10, n))
        /\ n > 0
        /\ ~BigLess(m, Pow(10, n - 1))

\* the digit after the digits of acc in the quotient of x by unit, r more
\* digits following it
NextDigit(x, unit, acc, r) ==
    CHOOSE d \in 0..9 :
        /\ ~BigLess(x, BigMul(unit, BigMul(MulSmall(acc, 10, d), Pow(10, r))))
        /\ \/ d = 9
           \/ BigLess(x, BigMul(unit, BigMul(MulSmall(acc, 10, d + 1), Pow(10, r))))

\* the first n decimal digits of the quotient of x by unit, after ds
RECURSIVE TopDigits(_, _, _, _)
TopDigits(x, unit, ds, n) ==
    IF Len(ds) = n THEN ds
    ELSE TopDigits(x, unit,
                   Append(ds, NextDigit(x, unit, FromDigits(ds, 10, 1, Len(ds)),
                                        n - Len(ds) - 1)),
                   n)

\* the numbers of k significant digits next to x, whose first digits are ds
\* and whose digit after them is worth unit: the one not above x and the
\* one above it, and their multipliers of the power of ten
LowerDigits(ds, k) == FromDigits(ds, 10, 1, k)
UpperDigits(ds, k) == BigAdd(FromDigits(ds, 10, 1, k), <<1>>)
Below(unit, ds, k) == BigMul(unit, BigMul(LowerDigits(ds, k), Pow(10, Len(ds) - k)))
Above(unit, ds, k) == BigMul(unit, BigMul(UpperDigits(ds, k), Pow(10, Len(ds) - k)))

\* whether a number of k significant digits is read back as the double x
ReadBack(x, unit, ds, k) ==
    Nearest(Below(unit, ds, k)) = x \/ Nearest(Above(unit, ds, k)) = x

\* the least number of significant digits that are read back as x, k being
\* enough
RECURSIVE Precision(_, _, _, _)
Precision(x, unit, ds, k) ==
    IF k > 1 /\ ReadBack(x, unit, ds, k - 1)
    THEN Precision(x, unit, ds, k - 1)
    ELSE k

\* whether, of the two numbers of k significant digits next to x, the one
\* above is the text of x: the one read back as x, the nearer to x when
\* both are, the one of even last digit when they are as near
TakeAbove(x, lo, hi, lastDigit) ==
    IF Nearest(hi) # x THEN FALSE
    ELSE IF Nearest(lo) # x THEN TRUE
    ELSE IF BigLess(BigSub(x, lo), BigSub(hi, x)) THEN FALSE
    ELSE IF BigLess(BigSub(hi, x), BigSub(x, lo)) THEN TRUE
    ELSE lastDigit % 2 = 1

\* the significant digits of the shortest decimal read back as x
Shortest(x, unit, ds, k) ==
    IF TakeAbove(x, Below(unit, ds, k), Above(unit, ds, k), ds[k])
    THEN DecimalDigits(UpperDigits(ds, k))
    ELSE SubSeq(ds, 1, k)

\* ds without the zeros at its end
Significant(ds) ==
    IF \A i \in 1..Len(ds) : ds[i] = 0 THEN <<>>
    ELSE SubSeq(ds, 1, CHOOSE i \in 1..Len(ds) :
                           ds[i] # 0 /\ \A j \in (i + 1)..Len(ds) : ds[j] = 0)

\* the text of the decimal of significant digits sig and n digits in all:
\* the digits up to twenty-one of them, exponent notation beyond
DecimalText(sig, n) ==
    IF n <= 21 THEN DigitText(sig) \o [i \in 1..(n - Len(sig)) |-> Digit0]
    ELSE <<Digit0 + sig[1]>>
         \o (IF Len(sig) > 1 THEN <<Dot>> \o DigitText(Tail(sig)) ELSE <<>>)
         \o <<LowerE, Plus>> \o NatToString(BigOf(n - 1))

\* the text of the digits c, the shortest that are read back, of a number
\* that has n digits when c has k
ShortestText(c, k, n) == DecimalText(Significant(c), n + Len(c) - k)

\* the text of x, of n digits, the first of which are ds
TextFrom(x, unit, ds, n, k) == ShortestText(Shortest(x, unit, ds, k), k, n)

\* the text of x, of n digits, of which seventeen always are read back
TextOf(x, unit, ds, n) == TextFrom(x, unit, ds, n, Precision(x, unit, ds, Len(ds)))

TextWith(x, unit, n, m) == TextOf(x, unit, TopDigits(x, unit, <<>>, m), n)

TextOfCount(x, n) ==
    TextWith(x, Pow(10, n - (IF n < 17 THEN n ELSE 17)), n, IF n < 17 THEN n ELSE 17)

\* Number::toString of a finite magnitude: the digits of the integer below
\* 2^53, where they are its shortest decimal
MagToString(m) ==
    IF BitLength(m) <= 53 THEN NatToString(m)
    ELSE TextOfCount(m, DigitCount(m, BitLength(m)))

NaNText == Str(<<"N", "a", "N">>)
InfinityText == Str(<<"I", "n", "f", "i", "n", "i", "t", "y">>)

\* String(x) of a number, as setAttribute stores it
NumToString(x) ==
    IF x.nan THEN NaNText
    ELSE IF x.inf THEN (IF x.neg THEN <<Minus>> ELSE <<>>) \o InfinityText
    ELSE (IF x.neg THEN <<Minus>> ELSE <<>>) \o MagToString(x.mag)


(***************************************************************************)
(* The DOM.  dom is the tree (it never changes: the plugin creates and     *)
(* destroys no element); classList and attributes are what the plugin      *)
(* reads and writes.  Node 0 stands for "no node" (a null parentNode).     *)
(***************************************************************************)
VARIABLES
    dom,         \* the tree: node -> [parentNode, nodeName]
    authored,    \* the deck as the author wrote it: [classList, attributes]
    config,      \* reveal.getConfig()["autoFragment"], <<>> when not given
    classList,   \* node -> set of class names
    attributes,  \* node -> (attribute name -> string)
    thisOptions, \* this.options of the plugin object
    pc,          \* where init is: "idle", "slides", "sweep"
    runsLeft,    \* how many more times the host calls init
    slideQueue,  \* slides the first loop of init has not visited yet
    sweepQueue,  \* elements the second loop of init has not visited yet
    options,     \* the local options of the scope processed last
    calls        \* the invocations of addFragment so far, in order

vars == <<dom, authored, config, classList, attributes, thisOptions, pc,
          runsLeft, slideQueue, sweepQueue, options, calls>>

AutoFragment == "data-auto-fragment"
FragmentIndex == "data-fragment-index"

Nodes == 1..Len(dom)
parentNode(n) == dom[n].parentNode
nodeName(n) == dom[n].nodeName

\* every node, in document order
AllNodes == [n \in 1..Len(dom) |-> n]

\* element.children, in document order
children(n) == SelectSeq(AllNodes, LAMBDA c : parentNode(c) = n)

\* whether n is a proper descendant of root
RECURSIVE IsInside(_, _)
IsInside(n, root) ==
    /\ parentNode(n) # 0
    /\ (parentNode(n) = root \/ IsInside(parentNode(n), root))

hasAttribute(at, n, name) == name \in DOMAIN at[n]
getAttribute(at, n, name) == at[n][name]
setAttribute(at, n, name, value) ==
    [at EXCEPT ![n] =
        [a \in DOMAIN at[n] \cup {name} |->
            IF a = name THEN value ELSE at[n][a]]]
removeAttribute(at, n, name) ==
    [at EXCEPT ![n] = [a \in DOMAIN at[n] \ {name} |-> at[n][a]]]

(***************************************************************************)
(* The plugin.                                                             *)
(***************************************************************************)
\* constructor: the default plugin options
DefaultSkip == 0
DefaultIndexStart == 10
DefaultIndexStep == 10
DefaultOptions ==
    [enabled |-> FALSE, skip |-> Num(DefaultSkip),
     indexStart |-> Num(DefaultIndexStart), indexStep |-> Num(DefaultIndexStep)]

\* options.field = value (the field is created when the object lacks it)
SetField(o, field, value) ==
    [f \in DOMAIN o \cup {field} |-> IF f = field THEN value ELSE o[f]]

\* Object.assign(target, source)
ObjectAssign(target, source) ==
    [f \in DOMAIN target \cup DOMAIN source |->
        IF f \in DOMAIN source THEN source[f] ELSE target[f]]

\* the truthiness of options.initRelative, undefined when never set
InitRelative(o) == "initRelative" \in DOMAIN o /\ o.initRelative

\* as RelativeStart, but only the parent of the first element is looked at
RelativeStartParentOnly(cl, at, element, indexStart) ==
    IF parentNode(element) # 0 /\ "slides" \notin cl[element]
          /\ hasAttribute(at, parentNode(element), FragmentIndex)
    THEN NumAdd(indexStart,
                parseInt(getAttribute(at, parentNode(element), FragmentIndex)))
    ELSE indexStart

\* the ancestor walk of addFragment: indexStart, plus the index of the
\* first ancestor met that carries data-fragment-index
RECURSIVE RelativeStart(_, _, _, _)
RelativeStart(cl, at, element, indexStart) ==
    IF parentNode(element) # 0 /\ "slides" \notin cl[element]
    THEN LET p == parentNode(element)
         IN  IF hasAttribute(at, p, FragmentIndex)
             THEN NumAdd(indexStart, parseInt(getAttribute(at, p, FragmentIndex)))
             ELSE RelativeStart(cl, at, p, indexStart)
    ELSE indexStart

\* as AddLoop, but an index attribute already there is overwritten
RECURSIVE AddLoopOverwriting(_, _, _, _, _, _, _)
AddLoopOverwriting(cl, at, elements, i, skip, indexStart, indexStep) ==
    IF i > Len(elements) THEN [classList |-> cl, attributes |-> at]
    ELSE LET element == elements[i]
             cl2 == IF NumGt(Num(i), skip) /\ "fragment" \notin cl[element]
                    THEN [cl EXCEPT ![element] = @ \cup {"fragment"}]
                    ELSE cl
             at2 == setAttribute(at, element, FragmentIndex,
                        NumToString(NumAdd(indexStart, NumMul(Num(i - 1), indexStep))))
         IN  AddLoopOverwriting(cl2, at2, elements, i + 1, skip, indexStart, indexStep)

\* the for loop of addFragment, from the i-th element on
RECURSIVE AddLoop(_, _, _, _, _, _, _)
AddLoop(cl, at, elements, i, skip, indexStart, indexStep) ==
    IF i > Len(elements) THEN [classList |-> cl, attributes |-> at]
    ELSE LET element == elements[i]
             cl2 == IF NumGt(Num(i), skip) /\ "fragment" \notin cl[element]
                    THEN [cl EXCEPT ![element] = @ \cup {"fragment"}]
                    ELSE cl
             at2 == IF ~hasAttribute(at, element, FragmentIndex)
                    THEN setAttribute(at, element, FragmentIndex,
                             NumToString(NumAdd(indexStart,
                                 NumMul(Num(i - 1), indexStep))))
                    ELSE at
         IN  AddLoop(cl2, at2, elements, i + 1, skip, indexStart, indexStep)

\* the loop of addFragment run with the indexStart the walk has settled
AddFrom(cl, at, elements, opts, indexStart) ==
    [dom |-> AddLoop(cl, at, elements, 1, opts.skip, indexStart, opts.indexStep),
     base |-> indexStart]

\* addFragment(elements, options) on the DOM state (cl, at): the DOM state
\* after, and the value of indexStart the loop used
addFragment(cl, at, elements, opts) ==
    IF Len(elements) = 0
    THEN [dom |-> [classList |-> cl, attributes |-> at], base |-> opts.indexStart]
    ELSE AddFrom(cl, at, elements, opts,
                 IF InitRelative(opts)
                 THEN RelativeStart(cl, at, elements[1], opts.indexStart)
                 ELSE opts.indexStart)

\* the three positional fields of a directive, applied to the options
SkipField(opts, values) ==
    IF Len(values) >= 1 /\ Len(values[1]) > 0
    THEN SetField(opts, "skip", parseInt(values[1]))
    ELSE opts

IndexStartField(opts, values) ==
    IF Len(values) >= 2 /\ Len(values[2]) > 0
    THEN SetField(SetField(opts, "initRelative", values[2][1] = Plus),
                  "indexStart", parseInt(values[2]))
    ELSE opts

IndexStepField(opts, values) ==
    IF Len(values) >= 3 /\ Len(values[3]) > 0
    THEN SetField(opts, "indexStep", parseInt(values[3]))
    ELSE opts

ParseFields(opts, values) ==
    IndexStepField(IndexStartField(SkipField(opts, values), values), values)

\* attr.split(",").map(v => v.trim())
TrimAll(pieces) == [i \in 1..Len(pieces) |-> trim(pieces[i])]

FalseText == Str(<<"f", "a", "l", "s", "e">>)

\* what getOptionsFromAttr makes of the options, given the attribute value
ParseAttr(opts, attr) ==
    IF attr = <<>> THEN SetField(opts, "enabled", TRUE)
    ELSE IF attr = FalseText
    THEN SetField(SetField(opts, "enabled", TRUE), "enabled", FALSE)
    ELSE ParseFields(SetField(opts, "enabled", TRUE), TrimAll(split(attr)))

\* getOptionsFromAttr(options, element): the options and the attributes after
getOptionsFromAttr(opts, at, element) ==
    IF ~hasAttribute(at, element, AutoFragment)
    THEN [options |-> opts, attributes |-> at]
    ELSE [options |-> ParseAttr(opts, getAttribute(at, element, AutoFragment)),
          attributes |-> removeAttribute(at, element, AutoFragment)]

isHeading(n) == nodeName(n) \in {"H1", "H2", "H3", "H4", "H5", "H6"}
isPresenterNotes(cl, n) == nodeName(n) = "ASIDE" /\ "notes" \in cl[n]

\* the children from position from on that are no presenter notes
ContentFrom(cl, ch, from) ==
    SelectSeq(SubSeq(ch, from, Len(ch)), LAMBDA c : ~isPresenterNotes(cl, c))

\* getContentElements(slide), ch being slide.children
ContentOf(cl, ch) ==
    ContentFrom(cl, ch, IF Len(ch) > 0 /\ isHeading(ch[1]) THEN 2 ELSE 1)

getContentElements(cl, slide) == ContentOf(cl, children(slide))

\* as Descend, but one level at most
DescendOnce(elements) ==
    IF Len(elements) = 1 THEN children(elements[1]) ELSE elements

\* while (contentElements.length === 1) contentElements = contentElements[0].children
RECURSIVE Descend(_)
Descend(elements) ==
    IF Len(elements) = 1 THEN Descend(children(elements[1])) ELSE elements

\* if this is a title slide, enabled is forced to false
TitleForced(cl, thisOpts, slide) ==
    IF "title-slide" \in cl[slide]
    THEN SetField(thisOpts, "enabled", FALSE)
    ELSE thisOpts

\* the options read from the first child when it is a heading; r holds the
\* options and the attributes so far, ch the children of the slide
HeadingOptions(r, ch) ==
    IF Len(ch) > 0 /\ isHeading(ch[1])
    THEN getOptionsFromAttr(r.options, r.attributes, ch[1])
    ELSE r

\* as SlideOptions, but a title slide is treated like any other slide
SlideOptionsNoTitle(cl, at, thisOpts, slide) ==
    HeadingOptions(getOptionsFromAttr(thisOpts, at, slide), children(slide))

\* as SlideOptions, but the heading is read before the slide
SlideOptionsHeadingFirst(cl, at, thisOpts, slide) ==
    LET r1 == HeadingOptions([options |-> TitleForced(cl, thisOpts, slide),
                              attributes |-> at], children(slide))
    IN  getOptionsFromAttr(r1.options, r1.attributes, slide)

\* the options processSlide resolves for a slide, and the attributes after
SlideOptions(cl, at, thisOpts, slide) ==
    HeadingOptions(getOptionsFromAttr(TitleForced(cl, thisOpts, slide), at, slide),
                   children(slide))

\* what a loop iteration leaves when addFragment was not called
NotCalled(cl, r) ==
    [classList |-> cl, attributes |-> r.attributes, options |-> r.options,
     called |-> FALSE, elements |-> <<>>, base |-> r.options.indexStart]

\* what a loop iteration leaves when addFragment was called and returned a
Called(a, opts, elements) ==
    [classList |-> a.dom.classList, attributes |-> a.dom.attributes,
     options |-> opts, called |-> TRUE, elements |-> elements, base |-> a.base]

\* if (elements.length > 1) this.addFragment(elements, options)
Invoke(cl, r, elements) ==
    IF Len(elements) > 1
    THEN Called(addFragment(cl, r.attributes, elements, r.options), r.options, elements)
    ELSE NotCalled(cl, r)

\* processSlide once the options r are resolved
SlideResult(cl, r, slide) ==
    IF ~r.options.enabled
    THEN NotCalled(cl, r)
    ELSE Invoke(cl, r, Descend(getContentElements(cl, slide)))

\* processSlide(slide): the DOM after, the options resolved, and the list
\* addFragment was called with (called says whether it was called)
processSlide(cl, at, thisOpts, slide) ==
    SlideResult(cl, SlideOptions(cl, at, thisOpts, slide), slide)

\* the body of the second loop of init, for one element of the node list
processMarked(cl, at, thisOpts, element) ==
    Invoke(cl, getOptionsFromAttr(thisOpts, at, element), Descend(children(element)))

(***************************************************************************)
(* The host (reveal.js) and its decks.                                     *)
(***************************************************************************)
\* reveal.getRevealElement(): the root of the deck
RevealElement == 1

\* reveal.getSlides(): the sections of the slide container, in deck order
getSlides ==
    SelectSeq(AllNodes, LAMBDA n :
        /\ nodeName(n) = "SECTION"
        /\ parentNode(n) # 0
        /\ "slides" \in classList[parentNode(n)])

\* as querySelectorAll, but in reverse document order
querySelectorAllReversed(at) ==
    LET found == SelectSeq(AllNodes, LAMBDA n :
                    IsInside(n, RevealElement) /\ hasAttribute(at, n, AutoFragment))
    IN  [i \in 1..Len(found) |-> found[Len(found) + 1 - i]]

\* querySelectorAll("[data-auto-fragment]") on the root, in document order
querySelectorAll(at) ==
    SelectSeq(AllNodes, LAMBDA n :
        IsInside(n, RevealElement) /\ hasAttribute(at, n, AutoFragment))

El(p, name, classes) == [parentNode |-> p, nodeName |-> name, className |-> classes]

\* two slides: an empty one, then a title slide with a heading
DeckTitle ==
    << El(0, "DIV", {"reveal"}), El(1, "DIV", {"slides"}),
       El(2, "SECTION", {}),
       El(2, "SECTION", {"title-slide"}), El(4, "H1", {}), El(4, "P", {}),
       El(4, "P", {}) >>

\* one slide with a heading and presenter notes among its children
DeckNotes ==
    << El(0, "DIV", {"reveal"}), El(1, "DIV", {"slides"}),
       El(2, "SECTION", {}), El(3, "H2", {}), El(3, "P", {}),
       El(3, "ASIDE", {"notes"}), El(3, "P", {}) >>

\* one slide holding a list whose first item has children of its own
DeckNested ==
    << El(0, "DIV", {"reveal"}), El(1, "DIV", {"slides"}),
       El(2, "SECTION", {}), El(3, "UL", {}), El(4, "LI", {}),
       El(5, "SPAN", {}), El(5, "SPAN", {}), El(4, "LI", {}) >>

\* one slide whose content is wrapped in depth nested single DIVs around
\* kids paragraphs
ChainDeck(depth, kids) ==
    << El(0, "DIV", {"reveal"}), El(1, "DIV", {"slides"}), El(2, "SECTION", {}) >>
    \o [i \in 1..depth |-> El(2 + i, "DIV", {})]
    \o [i \in 1..kids |-> El(3 + depth, "P", {})]

MaxDepth == 2
MaxKids == 2
MaxAuthored == 2
MaxAuthoredRerun == 1
MaxRuns == 2

Decks == {DeckTitle, DeckNotes, DeckNested}
ChainDecks == {ChainDeck(d, k) : d \in 0..MaxDepth, k \in {0} \cup 2..MaxKids}

\* the plugin configurations the host may give
Configs ==
    { <<>>,
      [enabled |-> TRUE, skip |-> Num(1), indexStep |-> Num(1)] }

\* a marker whose indexStart is beyond the integers that JavaScript numbers
\* count one by one
LargeMarker ==
    [kind |-> "marker", value |-> Str(<<",", "9", "0", "0", "7", "1", "9", "9", "2", "5",
                                        "4", "7", "4", "0", "9", "9", "3", ",", "1">>)]

\* a marker whose indexStart is relative
RelativeMarker == [kind |-> "marker", value |-> Str(<<",", "+", "5">>)]

\* what the author may write on one element: a marker, an index, the class
Writable ==
    << [kind |-> "marker", value |-> <<>>],
       [kind |-> "marker", value |-> Str(<<"f", "a", "l", "s", "e">>)],
       RelativeMarker,
       [kind |-> "marker", value |-> Str(<<"1", ",">>) \o <<12>> \o Str(<<"2", "0">>)
                                     \o <<160>> \o Str(<<",", "2">>)],
       [kind |-> "marker", value |-> Str(<<"x", ",", "y">>)],
       [kind |-> "index", value |-> Str(<<"2", "0">>)],
       [kind |-> "class", value |-> Str(<<"f", "r", "a", "g", "m", "e", "n", "t">>)],
       LargeMarker >>

\* the annotations of a deck are numbered: every element but the root may
\* carry each of the writable things
AnnotationCount(deck) == (Len(deck) - 1) * Len(Writable)
AnnotationNode(a) == 2 + ((a - 1) \div Len(Writable))
AnnotationOf(a) == Writable[((a - 1) % Len(Writable)) + 1]

\* the sets of at most k annotations, at most one of a kind on an element,
\* the large marker apart
RECURSIVE Authorings(_, _)
Authorings(deck, k) ==
    IF k = 0 THEN {{}}
    ELSE LET prev == Authorings(deck, k - 1)
         IN  prev \cup
             UNION {{P \cup {a} :
                        a \in {b \in 1..AnnotationCount(deck) :
                                 /\ AnnotationOf(b) # LargeMarker
                                 /\ \A c \in P :
                                    /\ c < b
                                    /\ \/ AnnotationNode(c) # AnnotationNode(b)
                                       \/ AnnotationOf(c).kind # AnnotationOf(b).kind}} :
                    P \in prev}

\* the large marker on one element of the deck, alone or with a relative
\* marker on another
LargeAuthorings(deck) ==
    LET written(w) == {a \in 1..AnnotationCount(deck) : AnnotationOf(a) = w}
    IN  {{a} : a \in written(LargeMarker)}
        \cup {P \in {{a, b} : a \in written(LargeMarker), b \in written(RelativeMarker)} :
                 \A a \in P : \A b \in P : a # b => AnnotationNode(a) # AnnotationNode(b)}

Written(A, n, kind) ==
    {a \in A : AnnotationNode(a) = n /\ AnnotationOf(a).kind = kind}

AuthoredClassList(deck, A) ==
    [n \in 1..Len(deck) |->
        deck[n].className \cup
        (IF Written(A, n, "class") # {} THEN {"fragment"} ELSE {})]

AuthoredAttributes(deck, A) ==
    [n \in 1..Len(deck) |->
        LET names == (IF Written(A, n, "marker") # {} THEN {AutoFragment} ELSE {})
                     \cup (IF Written(A, n, "index") # {} THEN {FragmentIndex} ELSE {})
        IN  [name \in names |->
                AnnotationOf(CHOOSE a \in A :
                    a \in Written(A, n, IF name = AutoFragment THEN "marker" ELSE "index")
                ).value]]

\* the state after the plugin object is constructed, before init is called
InitWith(deck, A, cfg, runs) ==
    /\ dom = deck
    /\ authored = [classList |-> AuthoredClassList(deck, A),
                   attributes |-> AuthoredAttributes(deck, A)]
    /\ config = cfg
    /\ classList = authored.classList
    /\ attributes = authored.attributes
    /\ thisOptions = DefaultOptions
    /\ pc = "idle"
    /\ runsLeft = runs
    /\ slideQueue = <<>>
    /\ sweepQueue = <<>>
    /\ options = DefaultOptions
    /\ calls = <<>>

Init ==
    \/ \E deck \in Decks : \E A \in Authorings(deck, MaxAuthored) : \E cfg \in Configs :
          InitWith(deck, A, cfg, 1)
    \/ \E A \in LargeAuthorings(DeckNested) : InitWith(DeckNested, A, <<>>, 1)

(***************************************************************************)
(* init(reveal), one loop iteration at a time.                             *)
(***************************************************************************)
\* init is called: the configuration is merged into this.options
InitCall ==
    /\ pc = "idle"
    /\ runsLeft > 0
    /\ runsLeft' = runsLeft - 1
    /\ thisOptions' = ObjectAssign(thisOptions, config)
    /\ slideQueue' = getSlides
    /\ pc' = "slides"
    /\ UNCHANGED <<dom, authored, config, classList, attributes, sweepQueue,
                   options, calls>>

\* as CopiedFrom, but the local options are this.options itself
AliasedTo(thisOpts, localOpts) == localOpts

\* let options = {...this.options}: the local options are a copy, so what
\* a scope sets in them stays out of this.options
CopiedFrom(thisOpts, localOpts) == thisOpts

\* the log of addFragment invocations after a loop iteration
Record(scope, r) ==
    IF r.called
    THEN Append(calls, [loop |-> pc, scope |-> scope, elements |-> r.elements,
                        options |-> r.options, base |-> r.base])
    ELSE calls

\* what a loop iteration on scope, with result r, leaves in the state
Iteration(scope, r) ==
    /\ classList' = r.classList
    /\ attributes' = r.attributes
    /\ options' = r.options
    /\ calls' = Record(scope, r)
    /\ thisOptions' = CopiedFrom(thisOptions, r.options)

\* one iteration of the loop over the slides
SlideStep ==
    /\ pc = "slides"
    /\ slideQueue # <<>>
    /\ Iteration(Head(slideQueue),
                 processSlide(classList, attributes, thisOptions, Head(slideQueue)))
    /\ slideQueue' = Tail(slideQueue)
    /\ UNCHANGED <<dom, authored, config, pc, runsLeft, sweepQueue>>

\* the loop over the slides is over: the remaining markers are collected
SweepQuery ==
    /\ pc = "slides"
    /\ slideQueue = <<>>
    /\ sweepQueue' = querySelectorAll(attributes)
    /\ pc' = "sweep"
    /\ UNCHANGED <<dom, authored, config, classList, attributes, thisOptions,
                   runsLeft, slideQueue, options, calls>>

\* one iteration of the loop over the remaining marked elements
SweepStep ==
    /\ pc = "sweep"
    /\ sweepQueue # <<>>
    /\ Iteration(Head(sweepQueue),
                 processMarked(classList, attributes, thisOptions, Head(sweepQueue)))
    /\ sweepQueue' = Tail(sweepQueue)
    /\ UNCHANGED <<dom, authored, config, pc, runsLeft, slideQueue>>

\* init returns
InitReturn ==
    /\ pc = "sweep"
    /\ sweepQueue = <<>>
    /\ pc' = "idle"
    /\ UNCHANGED <<dom, authored, config, classList, attributes, thisOptions,
                   runsLeft, slideQueue, sweepQueue, options, calls>>

\* the same decks, with init called MaxRuns times
InitRerun ==
    \E deck \in Decks : \E A \in Authorings(deck, MaxAuthoredRerun) : \E cfg \in Configs :
        InitWith(deck, A, cfg, MaxRuns)

\* decks whose slide wraps its content in a chain of single children
InitChain ==
    \E deck \in ChainDecks : \E A \in Authorings(deck, MaxAuthoredRerun) : \E cfg \in Configs :
        InitWith(deck, A, cfg, 1)

Next == InitCall \/ SlideStep \/ SweepQuery \/ SweepStep \/ InitReturn

Spec == Init /\ [][Next]_vars
SpecRerun == InitRerun /\ [][Next]_vars
SpecChain == InitChain /\ [][Next]_vars


(***************************************************************************)
(* The claims.                                                             *)
(***************************************************************************)
Done == pc = "idle" /\ runsLeft = 0
IsSlide(n) == \E i \in 1..Len(getSlides) : getSlides[i] = n
IsInt(x) == ~x.nan
\* the numbers that are integers: neither NaN nor an infinity
Finite(x) == ~x.nan /\ ~x.inf
False == Str(<<"f", "a", "l", "s", "e">>)

\* the integers that JavaScript numbers count one by one: those of
\* magnitude below 2^53
Safe(z) == BitLength(z.mag) <= 53

\* the decimal text of an integer
IntText(z) == (IF z.neg THEN <<Minus>> ELSE <<>>) \o NatToString(z.mag)

\* b + (i-1)*k, in the integers
ExactIndex(o, i) == IntAdd(o.indexStart, IntMul(Num(i - 1), o.indexStep))

\* the call c tagged its i-th element iff i > skip and it lacked the tag,
\* and changed no other class of it
TagAt(c, i) ==
    /\ "fragment" \in classList'[c.elements[i]] <=>
           ("fragment" \in classList[c.elements[i]] \/ NumGt(Num(i), c.options.skip))
    /\ classList'[c.elements[i]] \ {"fragment"} = classList[c.elements[i]] \ {"fragment"}

\* the call c left the index of its i-th element as it was
IndexKeptAt(c, i) ==
    /\ hasAttribute(attributes', c.elements[i], FragmentIndex)
    /\ getAttribute(attributes', c.elements[i], FragmentIndex)
          = getAttribute(attributes, c.elements[i], FragmentIndex)

\* the call c gave its i-th element the index b + (i-1)*k
IndexSetAt(c, i) ==
    /\ hasAttribute(attributes', c.elements[i], FragmentIndex)
    /\ getAttribute(attributes', c.elements[i], FragmentIndex)
          = IntText(ExactIndex(c.options, i))

\* the calls C1 is about: initRelative false, integer skip, indexStart and
\* indexStep
Absolute(o) ==
    ~InitRelative(o) /\ Finite(o.skip) /\ Finite(o.indexStart) /\ Finite(o.indexStep)

MarkerLayer(value) ==
    IF value = <<>> THEN [enabled |-> TRUE]
    ELSE IF value = False THEN [enabled |-> FALSE]
    ELSE LET pieces == split(value)
             field(i) == IF i <= Len(pieces) THEN trim(pieces[i]) ELSE <<>>
             set == {"enabled"}
                    \cup (IF field(1) # <<>> THEN {"skip"} ELSE {})
                    \cup (IF field(2) # <<>> THEN {"indexStart", "initRelative"} ELSE {})
                    \cup (IF field(3) # <<>> THEN {"indexStep"} ELSE {})
         IN  [f \in set |->
                CASE f = "enabled" -> TRUE
                  [] f = "skip" -> parseInt(field(1))
                  [] f = "indexStart" -> parseInt(field(2))
                  [] f = "initRelative" -> (Head(field(2)) = Plus)
                  [] f = "indexStep" -> parseInt(field(3))]

\* the layer an element's marker attribute makes, empty without the attribute
AttrLayer(at, n) ==
    IF hasAttribute(at, n, AutoFragment)
    THEN MarkerLayer(getAttribute(at, n, AutoFragment))
    ELSE <<>>

\* the five layers of a slide's configuration, lowest precedence first
Layers(cl, at, slide) ==
    << DefaultOptions,
       config,
       IF "title-slide" \in cl[slide] THEN [enabled |-> FALSE] ELSE <<>>,
       AttrLayer(at, slide),
       IF children(slide) # <<>> /\ isHeading(children(slide)[1])
       THEN AttrLayer(at, children(slide)[1])
       ELSE <<>> >>

FieldNames == {"enabled", "skip", "indexStart", "initRelative", "indexStep"}

\* C2: the options processSlide resolves are, field by field, the value of
\* the highest layer that sets the field, the layers being the defaults,
\* the host's configuration, the title-slide forcing, the slide's marker and
\* the first-child heading's marker; "false" sets enabled only.
C2_Layering ==
    [][(pc = "slides" /\ slideQueue # <<>> /\ slideQueue' = Tail(slideQueue)) =>
        LET L == Layers(classList, attributes, Head(slideQueue))
        IN  \A f \in FieldNames :
                LET setters == {i \in 1..Len(L) : f \in DOMAIN L[i]}
                IN  IF setters = {}
                    THEN f \notin DOMAIN options'
                    ELSE /\ f \in DOMAIN options'
                         /\ options'[f] =
                                L[CHOOSE i \in setters : \A j \in setters : j <= i][f]
    ]_vars

\* a slide whose marker sets skip, indexStart and indexStep and whose
\* heading's marker then replaces indexStart alone
C2_Witness ==
    /\ pc = "slides"
    /\ \E n \in Nodes :
        /\ IsSlide(n)
        /\ hasAttribute(authored.attributes, n, AutoFragment)
        /\ ~hasAttribute(attributes, n, AutoFragment)
        /\ children(n) # <<>>
        /\ hasAttribute(authored.attributes, children(n)[1], AutoFragment)
        /\ ~hasAttribute(attributes, children(n)[1], AutoFragment)
    /\ options.enabled
    /\ options.skip = Num(1)
    /\ options.indexStart = Num(5)
    /\ InitRelative(options)
    /\ options.indexStep = Num(2)


Ancestors(n) == {a \in Nodes : IsInside(n, a)}
Subtree(n) == {d \in Nodes : IsInside(d, n)}
Authored(n, name) == hasAttribute(authored.attributes, n, name)
IsTitleSlide(n) == IsSlide(n) /\ "title-slide" \in classList[n]
GainedFragment(n) ==
    "fragment" \in classList[n] /\ "fragment" \notin authored.classList[n]
GainedIndex(n) ==
    hasAttribute(attributes, n, FragmentIndex) /\ ~Authored(n, FragmentIndex)
\* this.options once init has merged the host's configuration
GlobalOptions == ObjectAssign(DefaultOptions, config)

\* what "full auto-fragmenting" of a slide's content elements leaves: every
\* one indexed, every one past the first skip of them tagged
FullyFragmented(slide) ==
    LET content == getContentElements(classList, slide)
    IN  \A i \in 1..Len(content) :
            /\ hasAttribute(attributes, content[i], FragmentIndex)
            /\ NumGt(Num(i), GlobalOptions.skip) => "fragment" \in classList[content[i]]

\* C3 as stated: a title slide that carries no marker attribute has no
\* fragment class added anywhere in it, whatever the configuration; with the
\* marker "" on it, its content elements are fully auto-fragmented.
C3_Original ==
    \A t \in Nodes :
        IsTitleSlide(t) =>
            /\ ~Authored(t, AutoFragment) => \A n \in Subtree(t) : ~GainedFragment(n)
            /\ (Done /\ Authored(t, AutoFragment)
                     /\ getAttribute(authored.attributes, t, AutoFragment) = <<>>)
                  => FullyFragmented(t)

\* C3 as amended: no fragment class is added in a title slide when no marker
\* is written on it, inside it (its heading included) or above it; with the
\* marker "" on it and none on its first-child heading, two or more content
\* elements are fully auto-fragmented with the global options.
C3_TitleSlide ==
    \A t \in Nodes :
        IsTitleSlide(t) =>
            /\ (\A m \in {t} \cup Subtree(t) \cup Ancestors(t) : ~Authored(m, AutoFragment))
                  => \A n \in Subtree(t) : ~GainedFragment(n)
            /\ (/\ Done
                /\ Authored(t, AutoFragment)
                /\ getAttribute(authored.attributes, t, AutoFragment) = <<>>
                /\ children(t) # <<>>
                /\ ~(isHeading(children(t)[1]) /\ Authored(children(t)[1], AutoFragment))
                /\ Len(getContentElements(classList, t)) >= 2)
                  => FullyFragmented(t)

\* init is over with auto-fragment enabled globally, and the unmarked title
\* slide, which has content, was left alone
C3_Witness ==
    /\ Done
    /\ "enabled" \in DOMAIN config
    /\ config.enabled
    /\ \E t \in Nodes :
        /\ IsTitleSlide(t)
        /\ \A m \in Nodes : ~Authored(m, AutoFragment)
        /\ Len(getContentElements(classList, t)) >= 2
        /\ \A n \in Subtree(t) : ~GainedFragment(n) /\ ~GainedIndex(n)

\* C4: presenter notes among a slide's children are never in a list given
\* to addFragment and never gain the fragment class or an index.
C4_NotesExcluded ==
    \A n \in Nodes :
        (IsSlide(parentNode(n)) /\ isPresenterNotes(classList, n)) =>
            /\ \A k \in 1..Len(calls) :
                  \A i \in 1..Len(calls[k].elements) : calls[k].elements[i] # n
            /\ ~GainedFragment(n)
            /\ ~GainedIndex(n)

\* the ancestors the walk from e looks at when it stops below the container
BelowContainer(e) ==
    {a \in Ancestors(e) : \E s \in Ancestors(a) : "slides" \in classList[s]}

\* the ancestors the walk from e looks at: those with no element of class
\* slides strictly below them on the way up from e
WalkedFrom(e) ==
    {a \in Ancestors(e) :
        \A x \in {e} \cup Ancestors(e) : IsInside(x, a) => "slides" \notin classList[x]}

\* indexStart plus the index of the nearest of the candidates carrying one
BaseOver(candidates, indexStart) ==
    LET indexed == {a \in candidates : hasAttribute(attributes, a, FragmentIndex)}
    IN  IF indexed = {} THEN indexStart
        ELSE LET nearest == CHOOSE a \in indexed : \A b \in indexed : b <= a
             IN  NumAdd(indexStart, parseInt(getAttribute(attributes, nearest, FragmentIndex)))

\* a + b in the integers when both are integers, as a number may it be
\* one or not; as NumAdd has it when one of them is no integer
ExactAdd(a, b) ==
    IF Finite(a) /\ Finite(b)
    THEN [nan |-> FALSE, inf |-> FALSE,
          neg |-> IntAdd(a, b).neg, mag |-> IntAdd(a, b).mag]
    ELSE NumAdd(a, b)

\* whether a + b is an addition of integers of magnitude below 2^53 whose
\* sum is one too, or has an operand that is no integer
ExactlyAdded(a, b) ==
    (Finite(a) /\ Finite(b)) => (Safe(a) /\ Safe(b) /\ Safe(IntAdd(a, b)))

\* the index of the nearest of the candidates carrying one, read as an
\* integer: the number to add to indexStart (0 without such a candidate)
Offset(candidates) ==
    LET indexed == {a \in candidates : hasAttribute(attributes, a, FragmentIndex)}
    IN  IF indexed = {} THEN Num(0)
        ELSE parseInt(getAttribute(attributes,
                          CHOOSE a \in indexed : \A b \in indexed : b <= a,
                          FragmentIndex))

\* C5 as stated: with initRelative the base is indexStart plus the index of
\* the nearest indexed ancestor of the first element, no element at or
\* above the slide container contributing; indexStart alone without one.
C5_Original ==
    [][Len(calls') > Len(calls) =>
        LET c == calls'[Len(calls')]
        IN  InitRelative(c.options) =>
                c.base = ExactAdd(c.options.indexStart,
                                  Offset(BelowContainer(c.elements[1])))
    ]_vars

\* C5 as amended: the walk goes up to and including the slide container, so
\* the container's own index contributes when nothing nearer carries one;
\* the base is the sum where indexStart, the ancestor's index and the sum
\* are of magnitude below 2^53, the range in which JavaScript numbers are
\* exact.
C5_RelativeBase ==
    [][Len(calls') > Len(calls) =>
        LET c == calls'[Len(calls')]
        IN  IF InitRelative(c.options)
            THEN ExactlyAdded(c.options.indexStart, Offset(WalkedFrom(c.elements[1])))
                 => c.base = ExactAdd(c.options.indexStart,
                                      Offset(WalkedFrom(c.elements[1])))
            ELSE c.base = c.options.indexStart
    ]_vars

\* indexStart 5 under an ancestor authored with index 20 gave base 25
C5_Witness ==
    \E k \in 1..Len(calls) :
        /\ InitRelative(calls[k].options)
        /\ calls[k].options.indexStart = Num(5)
        /\ calls[k].base = Num(25)
        /\ \E a \in BelowContainer(calls[k].elements[1]) :
              /\ Authored(a, FragmentIndex)
              /\ getAttribute(attributes, a, FragmentIndex) = Str(<<"2", "0">>)


LaterRun == runsLeft < MaxRuns - 1
SameIndex(n) ==
    /\ hasAttribute(attributes', n, FragmentIndex) <=> hasAttribute(attributes, n, FragmentIndex)
    /\ hasAttribute(attributes, n, FragmentIndex) =>
          getAttribute(attributes', n, FragmentIndex) = getAttribute(attributes, n, FragmentIndex)
NoFragmentChange == classList' = classList /\ \A n \in Nodes : SameIndex(n)
GloballyEnabled == "enabled" \in DOMAIN config /\ config.enabled
\* a slide, or the heading that is the first child of a slide
IsSlideLevel(n) ==
    \/ IsSlide(n)
    \/ /\ isHeading(n)
       /\ parentNode(n) # 0
       /\ IsSlide(parentNode(n))
       /\ children(parentNode(n))[1] = n

\* C6 as stated: once init has run, running it again with the same
\* configuration changes no fragment class and no index attribute.
C6_Original == [][LaterRun => NoFragmentChange]_vars

\* C6 as amended: that holds when the configuration leaves auto-fragment
\* disabled, or when no slide and no first-child heading carried a marker.
C6_Rerun ==
    [][(LaterRun /\ (~GloballyEnabled
                     \/ \A n \in Nodes : IsSlideLevel(n) => ~Authored(n, AutoFragment)))
          => NoFragmentChange]_vars

\* a second run that called addFragment again on the slide the first run had
\* processed, after the first run had consumed a marker
C6_Witness ==
    /\ LaterRun
    /\ GloballyEnabled
    /\ \A n \in Nodes : IsSlideLevel(n) => ~Authored(n, AutoFragment)
    /\ \E n \in Nodes : Authored(n, AutoFragment)
    /\ \A n \in Nodes : ~hasAttribute(attributes, n, AutoFragment)
    /\ \E j, k \in 1..Len(calls) :
          j < k /\ calls[j].loop = "slides" /\ calls[k].loop = "slides"
                /\ calls[j].scope = calls[k].scope

\* C7: addFragment is only invoked with options whose enabled is true and
\* with a list that is not empty.
C7_OnlyWhenEnabled ==
    \A k \in 1..Len(calls) : calls[k].options.enabled /\ Len(calls[k].elements) > 0

\* C8: every data-fragment-index the plugin writes is numeric.
C8_NumericIndex ==
    \A n \in Nodes :
        GainedIndex(n) => IsInt(parseInt(getAttribute(attributes, n, FragmentIndex)))

\* the candidates of element p within a scope: the content elements when p is
\* the slide being processed, its children otherwise
Candidates(loop, scope, p) ==
    IF loop = "slides" /\ p = scope
    THEN getContentElements(classList, p)
    ELSE children(p)

\* the chain of single candidates going down from the scope, the scope included
Chain(loop, scope) ==
    {w \in {scope} \cup Subtree(scope) :
        \A x \in ({w} \cup Ancestors(w)) \cap Subtree(scope) :
            Candidates(loop, scope, parentNode(x)) = <<x>>}

\* the candidates at the end of the chain
ChainEnd(loop, scope) ==
    LET W == Chain(loop, scope)
    IN  Candidates(loop, scope, CHOOSE w \in W : \A x \in W : x <= w)

\* C9: singleton descent ends at the first level, down the chain of single
\* candidates, whose list has zero or more than one elements; addFragment is
\* invoked on exactly that list when it has more than one element, and
\* nothing changes when it is empty.
C9_Descent ==
    [][(pc' = pc /\ pc \in {"slides", "sweep"}) =>
        LET scope == IF pc = "slides" THEN Head(slideQueue) ELSE Head(sweepQueue)
            L == ChainEnd(pc, scope)
        IN  /\ Len(L) # 1
            /\ (pc = "sweep" \/ options'.enabled) =>
                  /\ Len(L) > 1 =>
                        /\ Len(calls') = Len(calls) + 1
                        /\ calls'[Len(calls')].elements = L
                  /\ Len(L) = 0 => (calls' = calls /\ NoFragmentChange)
    ]_vars

\* a slide whose call reached the paragraphs two wrappers down
C9_Witness ==
    \E k \in 1..Len(calls) :
        LET c == calls[k]
        IN  /\ c.loop = "slides"
            /\ Len(c.elements) >= 2
            /\ parentNode(c.elements[1]) # c.scope
            /\ parentNode(parentNode(c.elements[1])) # c.scope
            /\ \A i \in 1..Len(c.elements) :
                  hasAttribute(attributes, c.elements[i], FragmentIndex)

\* C10: the slides are processed in deck order before the sweep visits any
\* element, the sweep goes in document order, and the base a swept scope
\* computed with initRelative already includes the index its enclosing
\* scopes assign: no later step changes the ancestor index it rests on.
C10_Order ==
    /\ pc = "sweep" => slideQueue = <<>>
    /\ \A i \in 1..Len(slideQueue) : \A j \in 1..Len(slideQueue) :
          i < j => slideQueue[i] < slideQueue[j]
    /\ \A i \in 1..Len(sweepQueue) : \A j \in 1..Len(sweepQueue) :
          i < j => sweepQueue[i] < sweepQueue[j]
    /\ \A j \in 1..Len(calls) : \A k \in 1..Len(calls) :
          j < k =>
             /\ ~(calls[j].loop = "sweep" /\ calls[k].loop = "slides")
             /\ calls[j].loop = calls[k].loop => calls[j].scope < calls[k].scope
    /\ \A k \in 1..Len(calls) :
          (calls[k].loop = "sweep" /\ InitRelative(calls[k].options)) =>
             calls[k].base =
                BaseOver(WalkedFrom(calls[k].elements[1]), calls[k].options.indexStart)

\* a swept scope whose relative base rests on an index that an earlier call
\* of an enclosing scope had assigned
C10_Witness ==
    \E j, k \in 1..Len(calls) :
        /\ j < k
        /\ calls[k].loop = "sweep"
        /\ InitRelative(calls[k].options)
        /\ IsInt(calls[k].base)
        /\ \E a \in WalkedFrom(calls[k].elements[1]) :
              /\ GainedIndex(a)
              /\ \E i \in 1..Len(calls[j].elements) : calls[j].elements[i] = a
              /\ calls[k].base =
                    NumAdd(calls[k].options.indexStart,
                           parseInt(getAttribute(attributes, a, FragmentIndex)))
              /\ calls[k].base # calls[k].options.indexStart

====
